---- MODULE Spec2Model ----
(***************************************************************************)
(* Client-side authentication glue of src/Auth.tsx: the Access Guard       *)
(* (withLoginRequired), the callback handler (Authenticate and             *)
(* onLoginComplete) and the Logout control, over browser local storage,    *)
(* window.location and the identity provider's client.                     *)
(*                                                                         *)
(* One page is loaded at a time.  A step is one run of JavaScript between  *)
(* two awaits (or one React effect); assigning window.location.href loads  *)
(* the target page, which unmounts every component and abandons every      *)
(* request still in flight.                                                *)
(***************************************************************************)
EXTENDS Naturals, Sequences, FiniteSets

VARIABLES
    href,       \* window.location.href, an absolute URL
    storage,    \* localStorage: key -> value, Null when the key is absent
    sdk,        \* what useStytchUser() returns now: [user, fromCache]
    guard,      \* the mounted withLoginRequired wrapper, as last rendered
    cb,         \* the run of Authenticate's effect on this page, or the
                \* run whose navigation loaded this page
    revoking,   \* number of handleLogout calls awaiting session.revoke()
    last,       \* name of the step taken last
    navTarget,  \* the string the last step assigned to window.location.href
    pre,        \* storage and href as they were before the last step
    flow        \* the return flow since the most recent guard redirect

vars == <<href, storage, sdk, guard, cb, revoking, last, navTarget, pre,
          flow>>

----------------------------------------------------------------------------
(* Bounds *)

\* handleLogout calls that may await session.revoke() at the same time
MaxRevokes == 2

\* successful callback runs counted since a guard redirect
MaxUses == 2

----------------------------------------------------------------------------
(* Values *)

\* JavaScript null: getItem of an absent key, params.get of an absent
\* parameter, a user that is not logged in
Null == "<null>"

EmptyStr == ""

\* !v in JavaScript, for v a string or null
Falsy(v) == v = Null \/ v = EmptyStr

Keys == {"returnTo", "stytch_session", "stytch_user_id"}

GetItem(store, k) == store[k]

SetItem(store, k, v) == [store EXCEPT ![k] = v]

RemoveItem(store, k) == [store EXCEPT ![k] = Null]

Has(store, k) == store[k] # Null

LoginUrl == "https://app.example/login"

DashboardUrl == "https://app.example/dashboard"

CourtsUrl == "https://app.example/courts"

CbUrlNoToken == "https://app.example/authenticate"

CbUrlEmptyToken == "https://app.example/authenticate?token="

CbUrlToken == "https://app.example/authenticate?token=tok1"

CallbackUrls == {CbUrlNoToken, CbUrlEmptyToken, CbUrlToken}

\* pages whose component is wrapped by withLoginRequired
GuardedPages == {DashboardUrl, CourtsUrl}

\* Authenticate renders only a status line, so the Logout control is on the
\* other pages of the application
LogoutPages == GuardedPages \cup {LoginUrl}

AppPages == GuardedPages \cup {LoginUrl} \cup CallbackUrls

\* the URL that an assignment of target to window.location.href loads:
\* a path is resolved against the origin, an absolute URL is itself, the
\* empty string is the current document
Resolve(target, base) ==
    CASE target = "/login" -> LoginUrl
      [] target = "/dashboard" -> DashboardUrl
      [] target = EmptyStr -> base
      [] OTHER -> target

\* new URLSearchParams(window.location.search).get("token")
SearchToken(url) ==
    CASE url = CbUrlToken -> "tok1"
      [] url = CbUrlEmptyToken -> EmptyStr
      [] OTHER -> Null

Users == {"u1"}

SessionTokens == {"sess1", "sess2"}

\* what oauth.authenticate resolves with
Responses == [session_token : SessionTokens, user_id : Users]

\* the response field of a run that has none yet
NoResponse == [session_token |-> Null, user_id |-> Null]

SdkStates == [user : Users \cup {Null}, fromCache : BOOLEAN]

----------------------------------------------------------------------------
(* Component states *)

GuardUnmounted ==
    [mounted |-> FALSE, user |-> Null, fromCache |-> FALSE,
     rendered |-> "none", pending |-> FALSE]

CbIdle ==
    [pc |-> "idle", token |-> Null, log |-> << >>, notify |-> "none",
     nav |-> Null, resp |-> NoResponse, returnTo |-> Null]

CbMounted == [CbIdle EXCEPT !.pc = "mounted"]

CbRunning == {"exchanging", "notifying", "readingBody"}

\* React runs an effect right after the render that scheduled it, before
\* any other event is handled
EffectsFlushed == ~guard.pending /\ cb.pc # "mounted"

Snapshot == [storage |-> storage, href |-> href]

\* The return flow, kept for the properties: from is the location of the
\* most recent guard redirect, prev the location of the guard redirect
\* before it when no callback run succeeded in between, used the number of
\* callback runs that succeeded since, failed whether an exchange failed
\* since.
FlowInit == [from |-> Null, prev |-> Null, used |-> 0, failed |-> FALSE]

FlowGuarded(here) ==
    [from |-> here,
     prev |-> IF flow.used = 0 THEN flow.from ELSE Null,
     used |-> 0, failed |-> FALSE]

FlowUsed ==
    [flow EXCEPT !.used = IF @ < MaxUses THEN @ + 1 ELSE @]

FlowFailed == [flow EXCEPT !.failed = TRUE]

\* The browser loads url: the components of the old page are gone, a
\* callback page mounts Authenticate, and the provider's client starts from
\* whatever it has cached.  cbNext is what is kept of the callback run: its
\* record when the run itself navigates, nothing otherwise.
Arrive(url, cbNext) ==
    /\ href' = url
    /\ guard' = GuardUnmounted
    /\ revoking' = 0
    /\ cb' = IF url \in CallbackUrls THEN CbMounted ELSE cbNext
    /\ \E s \in SdkStates : sdk' = s

----------------------------------------------------------------------------
(* Environment *)

\* the user, or the provider's redirect, opens a page of the application
LoadPage(url) ==
    /\ EffectsFlushed
    /\ Arrive(url, CbIdle)
    /\ storage' = storage
    /\ last' = "LoadPage"
    /\ navTarget' = Null
    /\ pre' = Snapshot
    /\ flow' = flow

\* the provider's client publishes a new user state
SdkChange(s) ==
    /\ EffectsFlushed
    /\ href \in AppPages
    /\ s # sdk
    /\ sdk' = s
    /\ last' = "SdkChange"
    /\ navTarget' = Null
    /\ pre' = Snapshot
    /\ flow' = flow
    /\ UNCHANGED <<href, storage, guard, cb, revoking>>

----------------------------------------------------------------------------
(* Access Guard: withLoginRequired *)

GuardOutput(user, fromCache) ==
    IF fromCache THEN "placeholder"
    ELSE IF user = Null THEN "nothing"
    ELSE "component"

\* a render of the wrapper: on mount, and when useStytchUser() changed
GuardRender ==
    /\ EffectsFlushed
    /\ href \in GuardedPages
    /\ \/ ~guard.mounted
       \/ guard.user # sdk.user
       \/ guard.fromCache # sdk.fromCache
    /\ guard' = [mounted |-> TRUE, user |-> sdk.user,
                 fromCache |-> sdk.fromCache,
                 rendered |-> GuardOutput(sdk.user, sdk.fromCache),
                 pending |-> TRUE]
    /\ last' = "GuardRender"
    /\ navTarget' = Null
    /\ pre' = Snapshot
    /\ flow' = flow
    /\ UNCHANGED <<href, storage, sdk, cb, revoking>>

\* the effect keeping a returnTo that is already stored
GuardRedirect_KeepFirst(user, fromCache, store, here) ==
    IF fromCache
    THEN [redirect |-> FALSE, store |-> store, target |-> Null]
    ELSE IF user = Null
         THEN [redirect |-> TRUE,
               store |-> IF Falsy(GetItem(store, "returnTo"))
                         THEN SetItem(store, "returnTo", here)
                         ELSE store,
               target |-> "/login"]
         ELSE [redirect |-> FALSE, store |-> store, target |-> Null]

\* the effect without the check of fromCache
GuardRedirect_IgnoreCache(user, fromCache, store, here) ==
    IF user = Null
    THEN [redirect |-> TRUE,
          store |-> SetItem(store, "returnTo", here),
          target |-> "/login"]
    ELSE [redirect |-> FALSE, store |-> store, target |-> Null]

\* the effect without the write of returnTo
GuardRedirect_NoReturnTo(user, fromCache, store, here) ==
    IF fromCache
    THEN [redirect |-> FALSE, store |-> store, target |-> Null]
    ELSE IF user = Null
         THEN [redirect |-> TRUE, store |-> store, target |-> "/login"]
         ELSE [redirect |-> FALSE, store |-> store, target |-> Null]

\* what the effect does with the values its render saw: whether it
\* redirects, the storage it leaves and the string it assigns to
\* window.location.href
GuardRedirect(user, fromCache, store, here) ==
    IF fromCache
    THEN [redirect |-> FALSE, store |-> store, target |-> Null]
    ELSE IF user = Null
         THEN [redirect |-> TRUE,
               store |-> SetItem(store, "returnTo", here),
               target |-> "/login"]
         ELSE [redirect |-> FALSE, store |-> store, target |-> Null]

GuardEffect ==
    /\ guard.pending
    /\ LET r == GuardRedirect(guard.user, guard.fromCache, storage, href)
       IN IF ~r.redirect
          THEN /\ guard' = [guard EXCEPT !.pending = FALSE]
               /\ last' = "GuardEffect"
               /\ navTarget' = Null
               /\ UNCHANGED <<href, storage, sdk, cb, revoking, flow>>
          ELSE /\ storage' = r.store
               /\ Arrive(Resolve(r.target, href), CbIdle)
               /\ last' = "GuardRedirect"
               /\ navTarget' = r.target
               /\ flow' = FlowGuarded(href)
    /\ pre' = Snapshot

----------------------------------------------------------------------------
(* Callback handler: Authenticate and onLoginComplete *)

\* onLoginComplete that leaves the returnTo key in place
OnLoginComplete_KeepKey(store) ==
    LET returnTo == GetItem(store, "returnTo")
    IN IF ~Falsy(returnTo) /\ returnTo # EmptyStr
       THEN [store |-> store, target |-> returnTo]
       ELSE [store |-> store, target |-> "/dashboard"]

\* onLoginComplete whose default route is the login page
OnLoginComplete_DefaultLogin(store) ==
    LET returnTo == GetItem(store, "returnTo")
    IN IF ~Falsy(returnTo) /\ returnTo # EmptyStr
       THEN [store |-> RemoveItem(store, "returnTo"), target |-> returnTo]
       ELSE [store |-> store, target |-> "/login"]

\* onLoginComplete that tests returnTo against null only
OnLoginComplete_NullCheckOnly(store) ==
    LET returnTo == GetItem(store, "returnTo")
    IN IF returnTo # Null
       THEN [store |-> RemoveItem(store, "returnTo"), target |-> returnTo]
       ELSE [store |-> store, target |-> "/dashboard"]

\* the storage onLoginComplete leaves and the string it assigns to
\* window.location.href
OnLoginComplete(store) ==
    LET returnTo == GetItem(store, "returnTo")
    IN IF ~Falsy(returnTo) /\ returnTo # EmptyStr
       THEN [store |-> RemoveItem(store, "returnTo"), target |-> returnTo]
       ELSE [store |-> store, target |-> "/dashboard"]

\* the effect without the check of the token
AuthenticateEffect_NoTokenCheck ==
    /\ cb.pc = "mounted"
    /\ cb' = [cb EXCEPT !.pc = "exchanging", !.token = SearchToken(href),
                        !.log = <<"authenticate">>]
    /\ last' = "AuthenticateEffect"
    /\ navTarget' = Null
    /\ pre' = Snapshot
    /\ flow' = flow
    /\ UNCHANGED <<href, storage, sdk, guard, revoking>>

\* the effect of Authenticate up to the call of oauth.authenticate
AuthenticateEffect ==
    /\ cb.pc = "mounted"
    /\ LET token == SearchToken(href)
       IN cb' = IF Falsy(token)
                THEN [cb EXCEPT !.pc = "noToken", !.token = token]
                ELSE [cb EXCEPT !.pc = "exchanging", !.token = token,
                                !.log = <<"authenticate">>]
    /\ last' = "AuthenticateEffect"
    /\ navTarget' = Null
    /\ pre' = Snapshot
    /\ flow' = flow
    /\ UNCHANGED <<href, storage, sdk, guard, revoking>>

\* the rest of the then-callback once the notification has settled as
\* outcome: the call of onLoginComplete
CallbackRedirect(outcome) ==
    LET r == OnLoginComplete(storage)
    IN /\ storage' = r.store
       /\ Arrive(Resolve(r.target, href),
                 [cb EXCEPT !.pc = "redirected", !.notify = outcome,
                            !.nav = r.target, !.log = @ \o <<"navigate">>])
       /\ navTarget' = r.target
       /\ pre' = Snapshot
       /\ flow' = FlowUsed

\* the then-callback that stores the session token only
AuthResolved_NoUserId(response) ==
    /\ cb.pc = "exchanging"
    /\ storage' = SetItem(storage, "stytch_session", response.session_token)
    /\ cb' = [cb EXCEPT !.pc = "notifying", !.resp = response,
                        !.notify = "inflight",
                        !.returnTo = GetItem(storage, "returnTo"),
                        !.log = @ \o <<"setItem", "fetch">>]
    /\ last' = "AuthResolved"
    /\ navTarget' = Null
    /\ pre' = Snapshot
    /\ flow' = flow
    /\ UNCHANGED <<href, sdk, guard, revoking>>

\* the then-callback with the fetch not awaited: onLoginComplete runs while
\* the notification is in flight
AuthResolved_FireAndForget(response) ==
    /\ cb.pc = "exchanging"
    /\ LET stored == SetItem(SetItem(storage, "stytch_session",
                                     response.session_token),
                             "stytch_user_id", response.user_id)
           r == OnLoginComplete(stored)
       IN /\ storage' = r.store
          /\ Arrive(Resolve(r.target, href),
                    [cb EXCEPT !.pc = "redirected", !.resp = response,
                               !.notify = "inflight",
                               !.returnTo = GetItem(storage, "returnTo"),
                               !.nav = r.target,
                               !.log = @ \o <<"setItem", "setItem", "fetch",
                                              "navigate">>])
          /\ navTarget' = r.target
    /\ last' = "AuthResolved"
    /\ pre' = Snapshot
    /\ flow' = FlowUsed

\* oauth.authenticate resolved: the then-callback up to its await of fetch
AuthResolved(response) ==
    /\ cb.pc = "exchanging"
    /\ storage' = SetItem(SetItem(storage, "stytch_session",
                                  response.session_token),
                          "stytch_user_id", response.user_id)
    /\ cb' = [cb EXCEPT !.pc = "notifying", !.resp = response,
                        !.notify = "inflight",
                        !.returnTo = GetItem(storage, "returnTo"),
                        !.log = @ \o <<"setItem", "setItem", "fetch">>]
    /\ last' = "AuthResolved"
    /\ navTarget' = Null
    /\ pre' = Snapshot
    /\ flow' = flow
    /\ UNCHANGED <<href, sdk, guard, revoking>>

\* the catch-callback that alerts and stays on the page
AuthRejected_NoRedirect ==
    /\ cb.pc = "exchanging"
    /\ cb' = [cb EXCEPT !.pc = "failed", !.log = @ \o <<"alert">>]
    /\ last' = "AuthRejected"
    /\ navTarget' = Null
    /\ pre' = Snapshot
    /\ flow' = FlowFailed
    /\ UNCHANGED <<href, storage, sdk, guard, revoking>>

\* the catch-callback that also drops the stored return location
AuthRejected_DropsReturnTo ==
    /\ cb.pc = "exchanging"
    /\ Arrive(Resolve("/login", href),
              [cb EXCEPT !.pc = "failed", !.nav = "/login",
                         !.log = @ \o <<"alert", "navigate">>])
    /\ storage' = RemoveItem(storage, "returnTo")
    /\ last' = "AuthRejected"
    /\ navTarget' = "/login"
    /\ pre' = Snapshot
    /\ flow' = FlowFailed

\* the catch-callback redirecting as after a success
AuthRejected_Redirects ==
    /\ cb.pc = "exchanging"
    /\ LET r == OnLoginComplete(storage)
       IN /\ storage' = r.store
          /\ Arrive(Resolve(r.target, href),
                    [cb EXCEPT !.pc = "failed", !.nav = r.target,
                               !.log = @ \o <<"alert", "navigate">>])
          /\ navTarget' = r.target
    /\ last' = "AuthRejected"
    /\ pre' = Snapshot
    /\ flow' = FlowFailed

\* oauth.authenticate rejected: the catch-callback
AuthRejected ==
    /\ cb.pc = "exchanging"
    /\ Arrive(Resolve("/login", href),
              [cb EXCEPT !.pc = "failed", !.nav = "/login",
                         !.log = @ \o <<"alert", "navigate">>])
    /\ storage' = storage
    /\ last' = "AuthRejected"
    /\ navTarget' = "/login"
    /\ pre' = Snapshot
    /\ flow' = FlowFailed

\* fetch resolved with a response whose ok is TRUE
NotifyOk ==
    /\ cb.pc = "notifying"
    /\ CallbackRedirect("ok")
    /\ last' = "NotifyOk"

\* a response that is not OK answered by a second request
NotifyNotOk_Retry ==
    /\ cb.pc = "notifying"
    /\ Len(cb.log) < 6
    /\ cb' = [cb EXCEPT !.log = @ \o <<"fetch">>]
    /\ last' = "NotifyNotOk"
    /\ navTarget' = Null
    /\ pre' = Snapshot
    /\ flow' = flow
    /\ UNCHANGED <<href, storage, sdk, guard, revoking>>

\* fetch resolved with a response whose ok is FALSE: await of its text()
NotifyNotOk ==
    /\ cb.pc = "notifying"
    /\ cb' = [cb EXCEPT !.pc = "readingBody", !.notify = "notOk"]
    /\ last' = "NotifyNotOk"
    /\ navTarget' = Null
    /\ pre' = Snapshot
    /\ flow' = flow
    /\ UNCHANGED <<href, storage, sdk, guard, revoking>>

\* text() of the failed response settled; a rejection is caught
NotifyBodyRead(settled) ==
    /\ cb.pc = "readingBody"
    /\ CallbackRedirect(settled)
    /\ last' = "NotifyBodyRead"

\* fetch rejected with no try block around it: the rejection reaches the
\* catch-callback of the exchange
NotifyThrew_Fatal ==
    /\ cb.pc = "notifying"
    /\ Arrive(Resolve("/login", href),
              [cb EXCEPT !.pc = "redirected", !.notify = "threw",
                         !.nav = "/login",
                         !.log = @ \o <<"alert", "navigate">>])
    /\ storage' = storage
    /\ last' = "NotifyThrew"
    /\ navTarget' = "/login"
    /\ pre' = Snapshot
    /\ flow' = flow

\* fetch rejected: the catch block
NotifyThrew ==
    /\ cb.pc = "notifying"
    /\ CallbackRedirect("threw")
    /\ last' = "NotifyThrew"

----------------------------------------------------------------------------
(* Logout control *)

\* a click on the button, up to the await of session.revoke()
LogoutClick ==
    /\ EffectsFlushed
    /\ href \in LogoutPages
    /\ sdk.user # Null
    /\ revoking < MaxRevokes
    /\ revoking' = revoking + 1
    /\ last' = "LogoutClick"
    /\ navTarget' = Null
    /\ pre' = Snapshot
    /\ flow' = flow
    /\ UNCHANGED <<href, storage, sdk, guard, cb>>

\* the try block with localStorage.clear() in place of the removeItem
LogoutResolved_ClearAll ==
    /\ EffectsFlushed
    /\ revoking > 0
    /\ storage' = [k \in Keys |-> Null]
    /\ Arrive(Resolve("/login", href), CbIdle)
    /\ last' = "LogoutResolved"
    /\ navTarget' = "/login"
    /\ pre' = Snapshot
    /\ flow' = flow

\* the try block without the removeItem
LogoutResolved_KeepSession ==
    /\ EffectsFlushed
    /\ revoking > 0
    /\ storage' = storage
    /\ Arrive(Resolve("/login", href), CbIdle)
    /\ last' = "LogoutResolved"
    /\ navTarget' = "/login"
    /\ pre' = Snapshot
    /\ flow' = flow

\* session.revoke() resolved: the rest of the try block
LogoutResolved ==
    /\ EffectsFlushed
    /\ revoking > 0
    /\ storage' = RemoveItem(storage, "stytch_session")
    /\ Arrive(Resolve("/login", href), CbIdle)
    /\ last' = "LogoutResolved"
    /\ navTarget' = "/login"
    /\ pre' = Snapshot
    /\ flow' = flow

\* the cleanup in a finally block: it runs after a rejection too
LogoutRejected_Cleanup ==
    /\ EffectsFlushed
    /\ revoking > 0
    /\ storage' = RemoveItem(storage, "stytch_session")
    /\ Arrive(Resolve("/login", href), CbIdle)
    /\ last' = "LogoutRejected"
    /\ navTarget' = "/login"
    /\ pre' = Snapshot
    /\ flow' = flow

\* session.revoke() rejected: the catch block
LogoutRejected ==
    /\ EffectsFlushed
    /\ revoking > 0
    /\ revoking' = revoking - 1
    /\ last' = "LogoutRejected"
    /\ navTarget' = Null
    /\ pre' = Snapshot
    /\ flow' = flow
    /\ UNCHANGED <<href, storage, sdk, guard, cb>>

----------------------------------------------------------------------------
(* Specification *)

\* Local storage outlives the page and is shared by every script of the
\* origin: the session keys start absent, returnTo starts absent or empty.
Init ==
    /\ href \in AppPages
    /\ \E rt \in {Null, EmptyStr} :
           storage = [k \in Keys |-> IF k = "returnTo" THEN rt ELSE Null]
    /\ sdk \in SdkStates
    /\ guard = GuardUnmounted
    /\ cb = IF href \in CallbackUrls THEN CbMounted ELSE CbIdle
    /\ revoking = 0
    /\ last = "Init"
    /\ navTarget = Null
    /\ pre = [storage |-> storage, href |-> href]
    /\ flow = FlowInit

Next ==
    \/ \E url \in AppPages : LoadPage(url)
    \/ \E s \in SdkStates : SdkChange(s)
    \/ GuardRender
    \/ GuardEffect
    \/ AuthenticateEffect
    \/ \E response \in Responses : AuthResolved(response)
    \/ AuthRejected
    \/ NotifyOk
    \/ NotifyNotOk
    \/ \E settled \in {"notOk", "bodyThrew"} : NotifyBodyRead(settled)
    \/ NotifyThrew
    \/ LogoutClick
    \/ LogoutResolved
    \/ LogoutRejected

Spec == Init /\ [][Next]_vars

\* oauth.authenticate settles
AuthSettles ==
    \/ \E response \in Responses : AuthResolved(response)
    \/ AuthRejected

\* the notification request, or the read of its body, settles
NotifySettles ==
    \/ NotifyOk
    \/ NotifyNotOk
    \/ \E settled \in {"notOk", "bodyThrew"} : NotifyBodyRead(settled)
    \/ NotifyThrew

\* every effect runs, and the requests of a callback run settle
SettleSpec ==
    /\ Spec
    /\ WF_vars(AuthenticateEffect)
    /\ WF_vars(AuthSettles)
    /\ WF_vars(NotifySettles)

\* React runs every scheduled effect
LiveSpec == Spec /\ WF_vars(GuardEffect) /\ WF_vars(AuthenticateEffect)

TypeOK ==
    /\ href \in AppPages
    /\ storage \in [Keys -> {Null, EmptyStr} \cup AppPages \cup SessionTokens \cup Users]
    /\ sdk \in SdkStates
    /\ revoking \in 0..MaxRevokes
    /\ cb.pc \in {"idle", "mounted", "noToken", "failed", "redirected"}
                    \cup CbRunning
    /\ cb.pc \in CbRunning \cup {"mounted"} => href \in CallbackUrls
    /\ guard.mounted => href \in GuardedPages
    /\ Len(cb.log) <= 5
    /\ flow \in [from : GuardedPages \cup {Null},
                  prev : GuardedPages \cup {Null},
                  used : 0..MaxUses, failed : BOOLEAN]

----------------------------------------------------------------------------
(* Properties *)

Range(seq) == {seq[i] : i \in 1..Len(seq)}

\* the last step was the call of onLoginComplete by the callback handler
Redirected == last \in {"NotifyOk", "NotifyBodyRead", "NotifyThrew"}

NotifyFailures == {"notOk", "bodyThrew", "threw"}

C2_SessionIffUserId ==
    Has(storage, "stytch_session") <=> Has(storage, "stytch_user_id")

\* C3 as stated: the redirect after a successful exchange is not gated on
\* the notification: while the request is in flight the handler can take
\* the step that navigates and leaves the request in flight.
C3_RedirectNotGated ==
    cb.pc = "notifying" =>
        ENABLED (Next /\ cb'.pc = "redirected" /\ cb'.notify = "inflight")

\* C3 amended: the redirect after a successful exchange waits for the
\* notification request to settle, whatever its outcome: the handler has
\* never navigated to the returnTo value or /dashboard with the request in
\* flight, and while the request is in flight it has not navigated.
C3_RedirectAfterNotifySettled ==
    /\ cb.pc = "redirected" =>
           cb.notify \in {"ok"} \cup NotifyFailures /\ cb.nav # Null
    /\ cb.notify = "inflight" => cb.pc = "notifying" /\ cb.nav = Null

C3_Witness == Redirected /\ cb.pc = "redirected" /\ cb.notify = "ok"

\* C4: a guard that rendered with authentication state resolved and no
\* user eventually navigates to /login, and whenever the guard navigates,
\* returnTo holds the location the page had before the navigation.
C4_GuardRedirects ==
    /\ (guard.mounted /\ ~guard.fromCache /\ guard.user = Null)
           ~> (last = "GuardRedirect" /\ navTarget = "/login")
    /\ [](last = "GuardRedirect" =>
              /\ navTarget = "/login"
              /\ href = LoginUrl
              /\ pre.href \in GuardedPages
              /\ GetItem(storage, "returnTo") = pre.href)

C4_Witness == last = "GuardRedirect" /\ GetItem(storage, "returnTo") = CourtsUrl

\* C5: if returnTo held a non-empty URL when the exchange succeeded, the
\* callback handler navigates to exactly that value and removes the key.
C5_ReturnToHonoured ==
    Redirected /\ ~Falsy(cb.returnTo) =>
        /\ navTarget = cb.returnTo
        /\ cb.nav = cb.returnTo
        /\ href = cb.returnTo
        /\ ~Has(storage, "returnTo")

C5_Witness == Redirected /\ cb.returnTo = CourtsUrl

\* C6: if returnTo was absent when the exchange succeeded, the callback
\* handler navigates to /dashboard.
C6_DefaultDashboard ==
    Redirected /\ cb.returnTo = Null =>
        /\ navTarget = "/dashboard"
        /\ cb.nav = "/dashboard"
        /\ href = DashboardUrl

C6_Witness == Redirected /\ cb.returnTo = Null

\* C7: a callback run whose URL has no token makes no call of
\* oauth.authenticate and no notification, does not navigate and writes
\* nothing to local storage, and as long as the page stays loaded the run
\* does nothing more.
C7_NoTokenInert ==
    /\ [](cb.pc \notin {"idle", "mounted"} /\ Falsy(cb.token) =>
              /\ cb.pc = "noToken"
              /\ cb.log = << >>
              /\ cb.nav = Null
              /\ cb.notify = "none")
    /\ [](last = "AuthenticateEffect" /\ cb.pc = "noToken" =>
              storage = pre.storage /\ href = pre.href /\ navTarget = Null)
    /\ [][cb.pc = "noToken" /\ href \in CallbackUrls /\ last' # "LoadPage" =>
              cb' = cb /\ storage' = storage /\ href' = href]_vars

C7_Witness == cb.pc = "noToken" /\ last = "SdkChange" /\ cb.token = Null

\* C8: when oauth.authenticate rejects, the callback handler shows one
\* alert and then navigates to /login, and makes no other navigation.
C8_ExchangeFailure ==
    /\ last = "AuthRejected" =>
           cb.pc = "failed" /\ navTarget = "/login" /\ href = LoginUrl
    /\ cb.pc = "failed" =>
           /\ cb.nav = "/login"
           /\ cb.log = <<"authenticate", "alert", "navigate">>

C8_Witness == last = "AuthRejected" /\ GetItem(storage, "returnTo") = CourtsUrl

\* C9: when the notification answers with a status that is not OK or
\* fails with a network error, the handler keeps the stored stytch_session
\* and stytch_user_id, shows no alert and navigates to the returnTo value
\* or /dashboard, not to /login.
C9_NotifyFailureNonFatal ==
    /\ Redirected /\ cb.notify \in NotifyFailures =>
           /\ GetItem(storage, "stytch_session") = cb.resp.session_token
           /\ GetItem(storage, "stytch_user_id") = cb.resp.user_id
           /\ "alert" \notin Range(cb.log)
           /\ navTarget = IF Falsy(cb.returnTo) THEN "/dashboard"
                                                ELSE cb.returnTo
           /\ navTarget # "/login"
           /\ href # LoginUrl
    /\ cb.pc = "readingBody" =>
           /\ GetItem(storage, "stytch_session") = cb.resp.session_token
           /\ GetItem(storage, "stytch_user_id") = cb.resp.user_id
           /\ "alert" \notin Range(cb.log)

C9_Witness == Redirected /\ cb.notify = "threw"

\* C10: when session.revoke() rejects, handleLogout navigates nowhere and
\* leaves the page and local storage as they were.
C10_RevokeFailureOnlyLogged ==
    last = "LogoutRejected" =>
        /\ storage = pre.storage
        /\ href = pre.href
        /\ navTarget = Null

C10_Witness == last = "LogoutRejected" /\ Has(storage, "stytch_session")

Count(seq, e) == Cardinality({i \in 1..Len(seq) : seq[i] = e})

\* C11: after a logout whose session.revoke() resolved, neither
\* stytch_session nor stytch_user_id remains in local storage.
C11_LogoutClearsSessionKeys ==
    last = "LogoutResolved" =>
        /\ ~Has(storage, "stytch_session")
        /\ ~Has(storage, "stytch_user_id")

\* C12: the guard renders the wrapped component exactly when its
\* authentication state is resolved and a user is present, a placeholder
\* while fromCache is true, and nothing when resolved with no user; the
\* effect of a render with fromCache true writes nothing and navigates
\* nowhere.
C12_GuardRendering ==
    /\ [](guard.mounted =>
              /\ guard.rendered = "component" <=>
                     (~guard.fromCache /\ guard.user # Null)
              /\ guard.fromCache => guard.rendered = "placeholder"
              /\ ~guard.fromCache /\ guard.user = Null =>
                     guard.rendered = "nothing")
    /\ [](~guard.mounted => guard.rendered = "none")
    /\ [][guard.pending /\ guard.fromCache =>
              /\ storage' = storage
              /\ href' = href
              /\ navTarget' = Null
              /\ guard'.mounted]_vars

C12_Witness ==
    /\ last = "GuardEffect"
    /\ guard.fromCache
    /\ guard.user = Null
    /\ guard.rendered = "placeholder"

\* C13: a callback run calls oauth.authenticate at most once and the
\* worker at most once: exactly once after a successful exchange, never
\* after a failed exchange or without a token, and a run that has ended
\* makes no further call.
C13_OneNotification ==
    /\ [](/\ Count(cb.log, "authenticate") <= 1
          /\ Count(cb.log, "fetch") <= 1
          /\ cb.pc \in {"notifying", "readingBody", "redirected"} =>
                 Count(cb.log, "fetch") = 1 /\ Count(cb.log, "authenticate") = 1
          /\ cb.pc \in {"failed", "exchanging"} =>
                 Count(cb.log, "fetch") = 0 /\ Count(cb.log, "authenticate") = 1
          /\ cb.pc = "noToken" => cb.log = << >>)
    /\ [][cb.pc \in {"failed", "redirected", "noToken"} =>
              cb' = cb \/ cb' = CbMounted \/ cb' = CbIdle]_vars

C13_Witness == cb.pc = "redirected" /\ cb.notify = "bodyThrew" /\ last = "NotifyBodyRead"

\* C15: when the callback handler navigates to the returnTo value or
\* /dashboard, local storage already holds the session_token and user_id
\* of the exchange response, and both were written before the worker was
\* called.
C15_StoredBeforeRedirect ==
    /\ Redirected =>
           /\ GetItem(pre.storage, "stytch_session") = cb.resp.session_token
           /\ GetItem(pre.storage, "stytch_user_id") = cb.resp.user_id
           /\ GetItem(storage, "stytch_session") = cb.resp.session_token
           /\ GetItem(storage, "stytch_user_id") = cb.resp.user_id
           /\ cb.resp \in Responses
    /\ \A i \in 1..Len(cb.log) :
           cb.log[i] = "fetch" => Count(SubSeq(cb.log, 1, i - 1), "setItem") = 2
    /\ cb.pc \in {"notifying", "readingBody"} =>
           /\ GetItem(storage, "stytch_session") = cb.resp.session_token
           /\ GetItem(storage, "stytch_user_id") = cb.resp.user_id

C15_Witness == Redirected /\ GetItem(storage, "stytch_session") = "sess2"

\* C19: a returnTo entry holding the empty string is treated as absent by
\* onLoginComplete: it navigates to /dashboard and leaves the entry.
C19_EmptyReturnTo ==
    Redirected /\ GetItem(pre.storage, "returnTo") = EmptyStr =>
        /\ navTarget = "/dashboard"
        /\ href = DashboardUrl
        /\ GetItem(storage, "returnTo") = EmptyStr

C19_Witness == Redirected /\ GetItem(pre.storage, "returnTo") = EmptyStr

\* C14: returnTo is used once: after a guard redirect, the first callback
\* run that succeeds leaves the key absent, a later run that succeeds with
\* no guard redirect in between navigates to /dashboard, and only the
\* callback's redirect removes the key.
C14_ReturnToSingleUse ==
    /\ [](flow.from # Null /\ flow.used >= 1 => ~Has(storage, "returnTo"))
    /\ [](Redirected /\ flow.from # Null /\ flow.used >= 2 =>
              navTarget = "/dashboard" /\ href = DashboardUrl)
    /\ [][Has(storage, "returnTo") /\ ~Has(storage', "returnTo") =>
              last' \in {"NotifyOk", "NotifyBodyRead", "NotifyThrew"}]_vars

C14_Witness ==
    /\ Redirected
    /\ flow.from = CourtsUrl
    /\ flow.used = 2
    /\ navTarget = "/dashboard"

\* C16: a callback run that starts with a token navigates exactly once,
\* to the returnTo value or /dashboard after a success or to /login after
\* a failure, once its requests have settled (a page left before that
\* abandons them); no run navigates twice.
C16_OneNavigation ==
    /\ [](Count(cb.log, "navigate") <= 1)
    /\ [](cb.pc \in {"redirected", "failed"} =>
              Count(cb.log, "navigate") = 1 /\ cb.nav # Null)
    /\ [](cb.pc = "redirected" => "alert" \notin Range(cb.log))
    /\ [](cb.pc = "failed" =>
              cb.nav = "/login" /\ "fetch" \notin Range(cb.log))
    /\ (cb.pc = "mounted" /\ ~Falsy(SearchToken(href)))
           ~> (cb.pc \in {"redirected", "failed"} \/ last = "LoadPage")

C16_Witness ==
    /\ cb.pc = "redirected"
    /\ last = "NotifyBodyRead"
    /\ cb.log = <<"authenticate", "setItem", "setItem", "fetch", "navigate">>

\* C17: a callback run whose exchange is rejected leaves local storage as
\* it was, and a returnTo written by the guard before it is the target of
\* the next run that succeeds.
C17_FailureKeepsStorage ==
    /\ [](last = "AuthRejected" => storage = pre.storage)
    /\ [][cb.pc \in {"mounted", "exchanging"}
              /\ cb'.pc \in {"exchanging", "failed"} =>
              storage' = storage]_vars
    /\ [](Redirected /\ flow.from # Null /\ flow.used = 1 /\ flow.failed =>
              navTarget = flow.from /\ href = flow.from)

C17_Witness ==
    /\ Redirected
    /\ flow.failed
    /\ flow.used = 1
    /\ navTarget = CourtsUrl

\* C18: the first callback run that succeeds after a guard redirect
\* navigates to the location of the most recent guard redirect and leaves
\* returnTo absent.
C18_ReturnFlow ==
    Redirected /\ flow.from # Null /\ flow.used = 1 =>
        /\ navTarget = flow.from
        /\ href = flow.from
        /\ ~Has(storage, "returnTo")

C18_Witness ==
    /\ Redirected
    /\ flow.used = 1
    /\ flow.from = CourtsUrl
    /\ flow.prev = DashboardUrl
    /\ navTarget = CourtsUrl

====
